---- MODULE Spec2Model ----
(***************************************************************************)
(* Track resolution of the Spotify Song Analyzer (music.py).               *)
(*                                                                         *)
(* get_track_preview(track_name, artist_name) creates a client, runs the   *)
(* tiered search of search_track_with_preview, fetches the audio features  *)
(* of the chosen track and returns a pair (track_info, message).  The      *)
(* remote service (spotipy) is the environment: each remote call answers   *)
(* with a value drawn from a bounded set or raises.                        *)
(*                                                                         *)
(* Text is a sequence of one-character strings; a literal of the source    *)
(* is one multi-character token.  An optional value (Python None or a      *)
(* value) is a sequence of length 0 or 1.                                  *)
(***************************************************************************)
EXTENDS Integers, Sequences, FiniteSets, TLC

VARIABLES track_name, artist_name, pc, sp, tier, track_info, trace, result,
          calls, catalog, session_state, page

\* one call of get_track_preview: its arguments, locals, position and result
call == <<track_name, artist_name, pc, sp, tier, track_info, trace, result>>

\* two calls in flight against the service (calls, catalog), and the
\* dashboard (session_state, page)
others == <<calls, catalog, session_state, page>>

vars == <<call, others>>

(***************************************************************************)
(* Bounds                                                                  *)
(***************************************************************************)
MaxText == 1

MaxResults == 2

(***************************************************************************)
(* Python values                                                           *)
(***************************************************************************)
None == <<>>

Some(v) == <<v>>

Truthy(opt) == opt # <<>>

Get(opt) == opt[1]

Return(v) == [kind |-> "return", value |-> v]

Raise(e) == [kind |-> "raise", exc |-> e]

(***************************************************************************)
(* Text                                                                    *)
(***************************************************************************)
Chars == {"a", "A", "b"}

SeqsUpTo(S, n) == UNION {[1..k -> S] : k \in 0..n}

Texts == SeqsUpTo(Chars, MaxText)

\* str.lower() on one character
LowerChar(c) == IF c = "A" THEN "a" ELSE IF c = "B" THEN "b" ELSE c

\* str.lower()
Lower(s) == [i \in 1..Len(s) |-> LowerChar(s[i])]

\* the Python operator `needle in hay` on strings
In(needle, hay) ==
    \E i \in 0..(Len(hay) - Len(needle)) :
        \A j \in 1..Len(needle) : hay[i + j] = needle[j]

\* urllib.parse.quote on one character: letters are kept, a space and a
\* double quote are percent-encoded
QuoteChar(c) ==
    IF c = " " THEN <<"%", "2", "0">>
    ELSE IF c = "\"" THEN <<"%", "2", "2">>
    ELSE <<c>>

RECURSIVE quote(_)
quote(s) == IF s = <<>> THEN <<>> ELSE QuoteChar(Head(s)) \o quote(Tail(s))

(***************************************************************************)
(* The catalog: raw track entries the search endpoint may return           *)
(***************************************************************************)
Artist(name) == [name |-> name]

Album(name, images) ==
    [name |-> name, images |-> images, release_date |-> "2020-01-01"]

Track(id, name, artists, images, preview) ==
    [id |-> id, name |-> name, artists |-> artists,
     album |-> Album(<<"L">> \o name, images),
     preview_url |-> preview, popularity |-> 50, duration_ms |-> 200000,
     external_urls |-> [spotify |-> <<"https://open.spotify.com/track/", id>>],
     uri |-> <<"spotify:track:", id>>]

Image(id) == [url |-> <<"https://i.scdn.co/image/", id>>]

Preview(id) == Some(<<"https://p.scdn.co/mp3-preview/", id>>)

CatalogTracks ==
    { Track("t1", <<"A", "b">>, <<Artist(<<"a">>)>>, <<Image("t1")>>, None),
      Track("t2", <<"a", "b">>, <<Artist(<<"b">>), Artist(<<"A">>)>>,
            <<Image("t2"), Image("t2s")>>, Preview("t2")),
      Track("t3", <<"b">>, <<Artist(<<"b">>)>>, <<>>, Preview("t3")),
      Track("t4", <<"b", "a">>, <<Artist(<<"a", "b">>)>>, <<>>, None) }

\* results['tracks']['items']: at most MaxResults entries in service order
ItemLists == SeqsUpTo(CatalogTracks, MaxResults)

\* descriptions of the exceptions the client may raise
Excs == {"ReadTimeout", "http status: 429"}

SearchResponses ==
    {[kind |-> "ok", items |-> s] : s \in ItemLists}
        \cup {[kind |-> "raise", exc |-> e] : e \in Excs}

AuthResponses == {[kind |-> "ok"]} \cup {[kind |-> "raise", exc |-> e] : e \in Excs}

(***************************************************************************)
(* initialize_spotify_client                                               *)
(***************************************************************************)
\* an except clause that hands back a client all the same
InitializeExcept_ReturnsClient(e) == Return(Some("Spotify"))

\* the except clause: the error is logged and None returned
InitializeExcept(e) == Return(None)

initialize_spotify_client(resp) ==
    IF resp.kind = "raise" THEN InitializeExcept(resp.exc)
    ELSE Return(Some("Spotify"))

(***************************************************************************)
(* search_track_with_preview                                               *)
(***************************************************************************)
search_queries(t, a) ==
    << <<"track:\"">> \o t \o <<"\" artist:\"">> \o a \o <<"\"">>,
       t \o <<" ">> \o a,
       t >>

artist_match(track, a) ==
    \E i \in 1..Len(track.artists) : In(Lower(a), Lower(track.artists[i].name))

track_match(track, t) == In(Lower(t), Lower(track.name))

\* the first scan without the test of the artists
ExactMatchWithPreview_NoArtist(track, t, a) ==
    track_match(track, t) /\ Truthy(track.preview_url)

\* the condition of the first scan
ExactMatchWithPreview(track, t, a) ==
    artist_match(track, a) /\ track_match(track, t) /\ Truthy(track.preview_url)

\* the condition of the second scan
AnyWithPreview(track) == Truthy(track.preview_url)

\* the first scan: index of the first entry passing its test, 0 when the
\* scan ends without a return
FirstExact(items, t, a) ==
    IF \E i \in 1..Len(items) : ExactMatchWithPreview(items[i], t, a)
    THEN CHOOSE i \in 1..Len(items) :
             /\ ExactMatchWithPreview(items[i], t, a)
             /\ \A j \in 1..(i - 1) : ~ExactMatchWithPreview(items[j], t, a)
    ELSE 0

\* the second scan, likewise
FirstWithPreview(items) ==
    IF \E i \in 1..Len(items) : AnyWithPreview(items[i])
    THEN CHOOSE i \in 1..Len(items) :
             AnyWithPreview(items[i]) /\ \A j \in 1..(i - 1) : ~AnyWithPreview(items[j])
    ELSE 0

\* the scans without the second one
SelectIndex_NoSecondScan(items, t, a) ==
    LET first == FirstExact(items, t, a)
    IN  IF first # 0 THEN first ELSE 1

\* the scans with the last entry as the fallback
SelectIndex_LastAsFallback(items, t, a) ==
    LET first == FirstExact(items, t, a)
        second == FirstWithPreview(items)
    IN  IF first # 0 THEN first
        ELSE IF second # 0 THEN second
        ELSE Len(items)

\* the three scans over a non-empty result list: index of the returned track
SelectIndex(items, t, a) ==
    LET first == FirstExact(items, t, a)
        second == FirstWithPreview(items)
    IN  IF first # 0 THEN first
        ELSE IF second # 0 THEN second
        ELSE 1

\* the record with the URI in place of the identifier
create_track_info_UriAsId(track) ==
    [id |-> track.uri,
     name |-> track.name,
     artist |-> track.artists[1].name,
     album |-> track.album.name,
     album_image |-> IF track.album.images # <<>>
                     THEN Some(track.album.images[1].url) ELSE None,
     preview_url |-> track.preview_url,
     popularity |-> track.popularity,
     release_date |-> track.album.release_date,
     duration_ms |-> track.duration_ms,
     external_url |-> track.external_urls.spotify,
     uri |-> track.uri]

create_track_info(track) ==
    [id |-> track.id,
     name |-> track.name,
     artist |-> track.artists[1].name,
     album |-> track.album.name,
     album_image |-> IF track.album.images # <<>>
                     THEN Some(track.album.images[1].url) ELSE None,
     preview_url |-> track.preview_url,
     popularity |-> track.popularity,
     release_date |-> track.album.release_date,
     duration_ms |-> track.duration_ms,
     external_url |-> track.external_urls.spotify,
     uri |-> track.uri]

\* search_track_with_preview without its except clause
SearchExcept_Reraise(e) == Raise(e)

\* the except clause: the error is logged and None returned
SearchExcept(e) == Return(None)

\* an iteration that goes on to the next query when the result list holds
\* no entry with a preview
SearchIteration_KeepsLooking(resp, k, t, a) ==
    IF resp.kind = "raise" THEN SearchExcept(resp.exc)
    ELSE IF resp.items # <<>> /\ (FirstWithPreview(resp.items) # 0
                                    \/ k = Len(search_queries(t, a)))
         THEN Return(Some(create_track_info(resp.items[SelectIndex(resp.items, t, a)])))
    ELSE IF k = Len(search_queries(t, a)) THEN Return(None)
    ELSE [kind |-> "continue"]

\* One iteration of the loop over search_queries, given the answer of
\* sp.search: "continue" when the loop goes on to the next query.
SearchIteration(resp, k, t, a) ==
    IF resp.kind = "raise" THEN SearchExcept(resp.exc)
    ELSE IF resp.items # <<>>
         THEN Return(Some(create_track_info(resp.items[SelectIndex(resp.items, t, a)])))
    ELSE IF k = Len(search_queries(t, a)) THEN Return(None)
    ELSE [kind |-> "continue"]

(***************************************************************************)
(* get_alternative_preview_url                                             *)
(***************************************************************************)
get_alternative_preview_url(t, a) ==
    [youtube_search |->
        <<"https://www.youtube.com/results?search_query=">>
            \o quote(t \o <<" ">> \o a \o <<" ", "a", "u", "d", "i", "o">>),
     youtube_music |->
        <<"https://music.youtube.com/search?q=">> \o quote(t \o <<" ">> \o a),
     soundcloud |->
        <<"https://soundcloud.com/search?q=">> \o quote(t \o <<" ">> \o a)]

(***************************************************************************)
(* get_audio_features                                                      *)
(*                                                                         *)
(* A raw audio-features object is a function from some of the field names  *)
(* to values.  The service gives the seven proportions as fractions in     *)
(* [0, 1], written here as pairs <<numerator, denominator>>.               *)
(***************************************************************************)
Proportions ==
    {"danceability", "energy", "speechiness", "acousticness",
     "instrumentalness", "liveness", "valence"}

Scalars == {"tempo", "loudness", "key", "mode", "time_signature"}

FeatureFields == Proportions \cup Scalars

\* dict.get(key, default)
DictGet(d, key, default) == IF key \in DOMAIN d THEN d[key] ELSE default

\* a scaling by 1000
Times100_TooMuch(v) == (v[1] * 1000) \div v[2]

\* value * 100 for a fraction value
Times100(v) == (v[1] * 100) \div v[2]

\* the dictionary built from features[0]
ScaledFeatures(audio_data) ==
    [danceability |-> Times100(DictGet(audio_data, "danceability", <<0, 1>>)),
     energy |-> Times100(DictGet(audio_data, "energy", <<0, 1>>)),
     speechiness |-> Times100(DictGet(audio_data, "speechiness", <<0, 1>>)),
     acousticness |-> Times100(DictGet(audio_data, "acousticness", <<0, 1>>)),
     instrumentalness |-> Times100(DictGet(audio_data, "instrumentalness", <<0, 1>>)),
     liveness |-> Times100(DictGet(audio_data, "liveness", <<0, 1>>)),
     valence |-> Times100(DictGet(audio_data, "valence", <<0, 1>>)),
     tempo |-> DictGet(audio_data, "tempo", 120),
     loudness |-> DictGet(audio_data, "loudness", -5),
     key |-> DictGet(audio_data, "key", 0),
     mode |-> DictGet(audio_data, "mode", 1),
     time_signature |-> DictGet(audio_data, "time_signature", 4)]

\* the literal returned when no features are available
DefaultFeatures ==
    [danceability |-> 50, energy |-> 50, speechiness |-> 10,
     acousticness |-> 30, instrumentalness |-> 20, liveness |-> 15,
     valence |-> 50, tempo |-> 120, loudness |-> -5, key |-> 0,
     mode |-> 1, time_signature |-> 4]

\* an except clause that returns zeroed proportions in place of the defaults
FeaturesExcept_Zeroed(e) ==
    Return([k \in FeatureFields |->
               IF k \in Proportions THEN 0 ELSE DefaultFeatures[k]])

\* get_audio_features without its except clause
FeaturesExcept_Reraise(e) == Raise(e)

\* the except clause: the error is logged and the same literal returned
FeaturesExcept(e) == Return(DefaultFeatures)

\* `features and features[0]`: the answer is a non-empty list whose first
\* element is a non-empty dictionary
HasFeatures(resp) ==
    /\ resp.kind = "list"
    /\ resp.items # <<>>
    /\ Truthy(resp.items[1])
    /\ DOMAIN Get(resp.items[1]) # {}

get_audio_features(resp) ==
    IF resp.kind = "raise" THEN FeaturesExcept(resp.exc)
    ELSE IF HasFeatures(resp) THEN Return(ScaledFeatures(Get(resp.items[1])))
    ELSE Return(DefaultFeatures)

\* answers of sp.audio_features
FullFeatures ==
    { [k \in FeatureFields |->
          IF k \in Proportions THEN <<0, 1>>
          ELSE IF k = "tempo" THEN 0 ELSE IF k = "loudness" THEN -60
          ELSE IF k = "key" THEN 0 ELSE IF k = "mode" THEN 0 ELSE 3],
      [k \in FeatureFields |->
          IF k \in {"danceability", "energy"} THEN <<1, 1>>
          ELSE IF k \in Proportions THEN <<3, 4>>
          ELSE IF k = "tempo" THEN 174 ELSE IF k = "loudness" THEN -12
          ELSE IF k = "key" THEN 11 ELSE IF k = "mode" THEN 1 ELSE 5] }

PresentFields == {FeatureFields, Proportions, {"danceability", "tempo"}, {}}

Restrict(f, S) == [k \in S |-> f[k]]

RawFeatures == {Restrict(f, S) : f \in FullFeatures, S \in PresentFields}

FeatureResponses ==
    {[kind |-> "none"]}
        \cup {[kind |-> "list", items |-> <<>>],
              [kind |-> "list", items |-> <<None>>]}
        \cup {[kind |-> "list", items |-> <<Some(f)>>] : f \in RawFeatures}
        \cup {[kind |-> "raise", exc |-> e] : e \in Excs}

(***************************************************************************)
(* get_track_preview                                                       *)
(***************************************************************************)
ClientUnavailableMessage ==
    <<"Failed to initialize Spotify client. Please check your credentials.">>

\* the not-found text without the artist
NotFoundMessage_NoArtist(t, a) == <<"Track '">> \o t \o <<"' not found on Spotify.">>

NotFoundMessage(t, a) ==
    <<"Track '">> \o t \o <<"' by '">> \o a \o <<"' not found on Spotify.">>

PreviewUnavailableMessage ==
    <<"Spotify preview not available. Alternative listening options provided below.">>

\* the except clause of get_track_preview
TopExcept(e) == [track_data |-> None, error |-> Some(<<"An error occurred: ", e>>)]

ClientUnavailableResult ==
    [track_data |-> None, error |-> Some(ClientUnavailableMessage)]

\* the not-found return without its text
NotFoundResult_NoReason(t, a) == [track_data |-> None, error |-> None]

NotFoundResult(t, a) == [track_data |-> None, error |-> Some(NotFoundMessage(t, a))]

\* the final return without the test of the preview
FinalResult_NeverAdvises(info) == [track_data |-> Some(info), error |-> None]

\* the two returns after the record is complete
FinalResult(info) ==
    IF ~Truthy(info.preview_url)
    THEN [track_data |-> Some(info), error |-> Some(PreviewUnavailableMessage)]
    ELSE [track_data |-> Some(info), error |-> None]

\* the two keys added, with the links made from the name and the artist of
\* the track found
CompleteTrack_LinksFromTrack(info, features, t, a) ==
    [k \in DOMAIN info \cup {"audio_features", "alternatives"} |->
        IF k = "audio_features" THEN features
        ELSE IF k = "alternatives"
             THEN get_alternative_preview_url(info.name, info.artist)
        ELSE info[k]]

\* track_info with the two keys added after the feature lookup
CompleteTrack(info, features, t, a) ==
    [k \in DOMAIN info \cup {"audio_features", "alternatives"} |->
        IF k = "audio_features" THEN features
        ELSE IF k = "alternatives" THEN get_alternative_preview_url(t, a)
        ELSE info[k]]

NoResult == [track_data |-> None, error |-> None]

Init ==
    /\ track_name \in Texts
    /\ artist_name \in Texts
    /\ pc = "initialize"
    /\ sp = None
    /\ tier = 1
    /\ track_info = None
    /\ trace = <<>>
    /\ result = NoResult
    /\ calls = <<>> /\ catalog = <<>> /\ session_state = <<>> /\ page = <<>>

\* sp = initialize_spotify_client(); if not sp: return None, "Failed ..."
Initialize ==
    /\ pc = "initialize"
    /\ \E resp \in AuthResponses :
        LET out == initialize_spotify_client(resp) IN
        /\ trace' = Append(trace, [op |-> "auth", arg |-> <<>>, resp |-> resp])
        /\ IF out.kind = "raise"
           THEN /\ result' = TopExcept(out.exc)
                /\ pc' = "done"
                /\ sp' = sp
           ELSE /\ sp' = out.value
                /\ IF ~Truthy(out.value)
                   THEN result' = ClientUnavailableResult /\ pc' = "done"
                   ELSE result' = result /\ pc' = "search"
    /\ UNCHANGED <<track_name, artist_name, tier, track_info>>
    /\ UNCHANGED others

\* one sp.search call of the loop in search_track_with_preview, and, when
\* the function returns, the test of its value in get_track_preview
Search ==
    /\ pc = "search"
    /\ \E resp \in SearchResponses :
        LET query == search_queries(track_name, artist_name)[tier]
            out == SearchIteration(resp, tier, track_name, artist_name)
        IN
        /\ trace' = Append(trace, [op |-> "search", arg |-> query, resp |-> resp])
        /\ IF out.kind = "continue"
           THEN /\ tier' = tier + 1
                /\ UNCHANGED <<pc, track_info, result>>
           ELSE IF out.kind = "raise"
           THEN /\ result' = TopExcept(out.exc)
                /\ pc' = "done"
                /\ UNCHANGED <<tier, track_info>>
           ELSE /\ track_info' = out.value
                /\ IF ~Truthy(out.value)
                   THEN result' = NotFoundResult(track_name, artist_name)
                            /\ pc' = "done"
                   ELSE result' = result /\ pc' = "features"
                /\ tier' = tier
    /\ UNCHANGED <<track_name, artist_name, sp>>
    /\ UNCHANGED others

\* the sp.audio_features call of get_audio_features and the rest of
\* get_track_preview
Features ==
    /\ pc = "features"
    /\ \E resp \in FeatureResponses :
        LET out == get_audio_features(resp) IN
        /\ trace' = Append(trace, [op |-> "audio_features",
                                   arg |-> Get(track_info).id, resp |-> resp])
        /\ IF out.kind = "raise"
           THEN /\ result' = TopExcept(out.exc)
                /\ track_info' = track_info
           ELSE LET info == CompleteTrack(Get(track_info), out.value,
                                          track_name, artist_name)
                IN  /\ track_info' = Some(info)
                    /\ result' = FinalResult(info)
        /\ pc' = "done"
    /\ UNCHANGED <<track_name, artist_name, sp, tier>>
    /\ UNCHANGED others

Next == Initialize \/ Search \/ Features

Spec == Init /\ [][Next]_vars

(***************************************************************************)
(* What a finished run shows                                               *)
(***************************************************************************)
Done == pc = "done"

\* the calls of one kind, in the order issued
CallsOf(op) == SelectSeq(trace, LAMBDA c : c.op = op)

SearchCalls == CallsOf("search")

FeatureCalls == CallsOf("audio_features")

AuthFailed == trace # <<>> /\ trace[1].op = "auth" /\ trace[1].resp.kind = "raise"

\* the k-th search call was issued and answered with a result list
Answered(k) == k <= Len(SearchCalls) /\ SearchCalls[k].resp.kind = "ok"

ItemsOf(k) == SearchCalls[k].resp.items

SearchRaised == \E k \in 1..Len(SearchCalls) : SearchCalls[k].resp.kind = "raise"

FeatureRaised == FeatureCalls # <<>> /\ FeatureCalls[1].resp.kind = "raise"

AllTiersEmpty ==
    Len(SearchCalls) = 3 /\ \A k \in 1..3 : Answered(k) /\ ItemsOf(k) = <<>>

\* some search call was answered with a non-empty result list
SomeTierNonEmpty == \E k \in 1..Len(SearchCalls) : Answered(k) /\ ItemsOf(k) # <<>>

\* a candidate whose name contains the title and one of whose artists
\* contains the artist name, both case-insensitively, and that has a preview
IsExactWithPreview(c) ==
    /\ In(Lower(track_name), Lower(c.name))
    /\ \E i \in 1..Len(c.artists) : In(Lower(artist_name), Lower(c.artists[i].name))
    /\ c.preview_url # None

\* the returned record, cut down to the fields taken from the candidate
Skeleton(rec) ==
    [k \in DOMAIN rec \ {"audio_features", "alternatives"} |-> rec[k]]

RecordPresent == result.track_data # None

Record == Get(result.track_data)

\* the returned record is the one built from candidate c
BuiltFrom(c) ==
    /\ RecordPresent
    /\ Skeleton(Record) =
         [id |-> c.id, name |-> c.name, artist |-> c.artists[1].name,
          album |-> c.album.name,
          album_image |-> IF c.album.images = <<>> THEN None
                          ELSE Some(c.album.images[1].url),
          preview_url |-> c.preview_url, popularity |-> c.popularity,
          release_date |-> c.album.release_date, duration_ms |-> c.duration_ms,
          external_url |-> c.external_urls.spotify, uri |-> c.uri]

\* C1: when the first query's result list holds a candidate matching title
\* and artist with a preview, the run returns the record built from the
\* first such candidate and no advisory, whatever the feature call answers.
C1_ExactMatchWins ==
    (Done /\ Answered(1)
          /\ \E i \in 1..Len(ItemsOf(1)) : IsExactWithPreview(ItemsOf(1)[i]))
    => LET items == ItemsOf(1)
           i == CHOOSE n \in 1..Len(items) :
                    /\ IsExactWithPreview(items[n])
                    /\ \A m \in 1..(n - 1) : ~IsExactWithPreview(items[m])
       IN  BuiltFrom(items[i]) /\ result.error = None

\* the exact match is second in the list, behind a candidate with a preview
\* that does not match, and the feature call raised
C1_Witness ==
    /\ Done /\ Answered(1) /\ Len(ItemsOf(1)) = 2
    /\ track_name # <<>> /\ artist_name # <<>>
    /\ ~IsExactWithPreview(ItemsOf(1)[1]) /\ ItemsOf(1)[1].preview_url # None
    /\ IsExactWithPreview(ItemsOf(1)[2])
    /\ ItemsOf(1)[1].id # ItemsOf(1)[2].id
    /\ FeatureRaised
    /\ BuiltFrom(ItemsOf(1)[2])

\* C2: with a session and three empty result lists the run returns no
\* record and a not-found text containing the title and the artist.
C2_NotFoundNamesInput ==
    (Done /\ sp # None /\ AllTiersEmpty)
    => /\ result.track_data = None
       /\ result.error # None
       /\ In(<<"Track '">> \o track_name, Get(result.error))
       /\ In(<<"' by '">> \o artist_name, Get(result.error))
       /\ In(<<"' not found on Spotify.">>, Get(result.error))

C2_Witness ==
    /\ Done /\ sp # None /\ AllTiersEmpty
    /\ track_name = <<"a">> /\ artist_name = <<"b">>
    /\ result.track_data = None

\* the text of the returned message mentions the description e
Carries(e) == result.error # None /\ In(<<e>>, Get(result.error))

\* C3: whatever the client does, a run ends, and ends with a record (with
\* or without an advisory) or with no record and a failure text.
C3_AlwaysAResult ==
    /\ ~Done => ENABLED Next
    /\ Done => /\ Len(result.track_data) <= 1 /\ Len(result.error) <= 1
               /\ \/ RecordPresent
                  \/ result.track_data = None /\ result.error # None
                         /\ Get(result.error) # <<>>

\* two empty result lists, then the third search call raises
C3_Witness ==
    /\ Done /\ Len(SearchCalls) = 3
    /\ Answered(1) /\ Answered(2) /\ SearchCalls[3].resp.kind = "raise"
    /\ result.track_data = None /\ result.error # None

\* C4 as stated: when a search call or the feature call raised, the run
\* returns no record and a text carrying the exception's description.
C4_Original ==
    Done =>
        /\ \A k \in 1..Len(SearchCalls) :
              SearchCalls[k].resp.kind = "raise"
              => result.track_data = None /\ Carries(SearchCalls[k].resp.exc)
        /\ FeatureRaised
              => result.track_data = None /\ Carries(FeatureCalls[1].resp.exc)

\* C4 amended: an exception of a search call ends the run with no record
\* and the not-found text; an exception of the feature call leaves the run
\* successful with the default features; an exception of session creation
\* gives the client-unavailable text.  None of the texts carries the
\* exception's description.
C4_ExceptionsCaughtInside ==
    Done =>
        /\ \A k \in 1..Len(SearchCalls) :
              SearchCalls[k].resp.kind = "raise"
              => /\ result.track_data = None
                 /\ result.error = Some(<<"Track '">> \o track_name \o <<"' by '">>
                        \o artist_name \o <<"' not found on Spotify.">>)
                 /\ ~Carries(SearchCalls[k].resp.exc)
        /\ FeatureRaised
              => /\ RecordPresent
                 /\ Record.audio_features.danceability = 50
                 /\ Record.audio_features.tempo = 120
                 /\ ~Carries(FeatureCalls[1].resp.exc)
        /\ AuthFailed
              => /\ result.track_data = None
                 /\ ~Carries(trace[1].resp.exc)

\* the first search call raises
C4_Witness ==
    /\ Done /\ Len(SearchCalls) = 1 /\ SearchCalls[1].resp.kind = "raise"
    /\ result.track_data = None /\ ~Carries(SearchCalls[1].resp.exc)

\* C5 as stated: no record only when the session failed or all three tiers
\* were empty; a record whenever some tier was non-empty.
C5_Original ==
    Done =>
        /\ result.track_data = None => (sp = None \/ AllTiersEmpty)
        /\ SomeTierNonEmpty => RecordPresent

\* C5 amended: no record exactly when the session failed, a search call
\* raised, or all three tiers were empty; a record with at most one
\* advisory whenever some tier was non-empty.
C5_AbsentOnlyOnFailureOrEmpty ==
    Done =>
        /\ result.track_data = None <=> (sp = None \/ SearchRaised \/ AllTiersEmpty)
        /\ SomeTierNonEmpty => RecordPresent /\ Len(result.error) <= 1

\* an empty first tier, a non-empty second tier, and a feature call that
\* raises: the record is returned
C5_Witness ==
    /\ Done /\ Len(SearchCalls) = 2 /\ Answered(2) /\ ItemsOf(2) # <<>>
    /\ FeatureRaised /\ RecordPresent

\* C6: when session creation fails the run ends at once: the session call
\* is the only call, and the result is no record with the
\* client-unavailable text.
C6_AuthFailureAborts ==
    AuthFailed =>
        /\ Done
        /\ Len(trace) = 1
        /\ result.track_data = None
        /\ result.error =
             Some(<<"Failed to initialize Spotify client. Please check your credentials.">>)

C6_Witness == AuthFailed /\ Done /\ sp = None /\ track_name # <<>>

\* the result list the candidate is chosen from: the answer of the last
\* search call, when it is a non-empty list
ChosenFrom == ItemsOf(Len(SearchCalls))

Selecting ==
    /\ SearchCalls # <<>> /\ Answered(Len(SearchCalls)) /\ ChosenFrom # <<>>
    /\ \A k \in 1..(Len(SearchCalls) - 1) : Answered(k) /\ ItemsOf(k) = <<>>

HasPreview(c) == c.preview_url # None

NameMatches(c) ==
    /\ In(Lower(track_name), Lower(c.name))
    /\ \E i \in 1..Len(c.artists) : In(Lower(artist_name), Lower(c.artists[i].name))

\* C7: when the first non-empty result list has no candidate matching title
\* and artist with a preview but has one with a preview, the record is built
\* from the first candidate with a preview, and comes with no advisory.
C7_SecondScanTakesFirstPreview ==
    (Done /\ Selecting
          /\ (\A i \in 1..Len(ChosenFrom) : ~IsExactWithPreview(ChosenFrom[i]))
          /\ (\E i \in 1..Len(ChosenFrom) : HasPreview(ChosenFrom[i])))
    => LET i == CHOOSE n \in 1..Len(ChosenFrom) :
                    /\ HasPreview(ChosenFrom[n])
                    /\ \A m \in 1..(n - 1) : ~HasPreview(ChosenFrom[m])
       IN  BuiltFrom(ChosenFrom[i]) /\ result.error = None

\* the first candidate matches title and artist and has no preview; the
\* second has a preview and matches neither; the second is returned
C7_Witness ==
    /\ Done /\ Selecting /\ Len(ChosenFrom) = 2
    /\ track_name # <<>> /\ artist_name # <<>>
    /\ NameMatches(ChosenFrom[1]) /\ ~HasPreview(ChosenFrom[1])
    /\ ~NameMatches(ChosenFrom[2]) /\ HasPreview(ChosenFrom[2])
    /\ BuiltFrom(ChosenFrom[2]) /\ result.error = None

\* the candidate of the result list the returned record was built from
ChosenCandidates == {i \in 1..Len(ChosenFrom) : BuiltFrom(ChosenFrom[i])}

\* C8: a returned record comes with an advisory exactly when the chosen
\* candidate has no preview URL, and the advisory is the
\* preview-unavailable text.
C8_AdvisoryIffNoPreview ==
    (Done /\ RecordPresent)
    => /\ Selecting /\ ChosenCandidates # {}
       /\ \A i \in ChosenCandidates :
             /\ result.error # None <=> ~HasPreview(ChosenFrom[i])
             /\ Record.preview_url = None <=> ~HasPreview(ChosenFrom[i])
       /\ result.error # None
             => result.error =
                  Some(<<"Spotify preview not available. Alternative listening options provided below.">>)

\* a record without a preview URL, returned with the advisory
C8_Witness ==
    /\ Done /\ RecordPresent /\ Record.preview_url = None
    /\ result.error # None /\ ~FeatureRaised

\* the feature call answered with a non-empty object
UsableFeatures ==
    /\ FeatureCalls # <<>> /\ FeatureCalls[1].resp.kind = "list"
    /\ FeatureCalls[1].resp.items # <<>>
    /\ FeatureCalls[1].resp.items[1] # None
    /\ DOMAIN FeatureCalls[1].resp.items[1][1] # {}

RawAnswer == FeatureCalls[1].resp.items[1][1]

\* C9: every returned record carries features and alternative links; the
\* seven proportions lie in 0..100 and the five other fields are present,
\* with the values 120, -5, 0, 1, 4 where the service left them out.
C9_FeatureSetWellFormed ==
    (Done /\ RecordPresent)
    => /\ {"audio_features", "alternatives"} \subseteq DOMAIN Record
       /\ DOMAIN Record.alternatives = {"youtube_search", "youtube_music", "soundcloud"}
       /\ LET f == Record.audio_features IN
          /\ DOMAIN f = {"danceability", "energy", "speechiness", "acousticness",
                         "instrumentalness", "liveness", "valence", "tempo",
                         "loudness", "key", "mode", "time_signature"}
          /\ \A k \in {"danceability", "energy", "speechiness", "acousticness",
                       "instrumentalness", "liveness", "valence"} :
                f[k] \in 0..100
          /\ \A k \in {"tempo", "loudness", "key", "mode", "time_signature"} :
                f[k] \in Int
          /\ UsableFeatures =>
                /\ "tempo" \notin DOMAIN RawAnswer => f.tempo = 120
                /\ "loudness" \notin DOMAIN RawAnswer => f.loudness = -5
                /\ "key" \notin DOMAIN RawAnswer => f.key = 0
                /\ "mode" \notin DOMAIN RawAnswer => f.mode = 1
                /\ "time_signature" \notin DOMAIN RawAnswer => f.time_signature = 4
                /\ \A k \in DOMAIN RawAnswer \cap
                         {"tempo", "loudness", "key", "mode", "time_signature"} :
                       f[k] = RawAnswer[k]

\* the service answered with the proportions at their maximum and without
\* the five other fields
C9_Witness ==
    /\ Done /\ RecordPresent /\ UsableFeatures
    /\ "danceability" \in DOMAIN RawAnswer /\ RawAnswer.danceability = <<1, 1>>
    /\ "loudness" \notin DOMAIN RawAnswer
    /\ Record.audio_features.danceability = 100
    /\ Record.audio_features.loudness = -5

\* the feature call gave nothing usable: no answer, an empty list, a list
\* whose first element is absent, or an exception
NothingUsable ==
    /\ FeatureCalls # <<>>
    /\ \/ FeatureCalls[1].resp.kind \in {"none", "raise"}
       \/ FeatureCalls[1].resp.kind = "list"
             /\ (FeatureCalls[1].resp.items = <<>>
                   \/ FeatureCalls[1].resp.items[1] = None)

\* C10: when the feature call gives nothing usable or raises, the record is
\* returned with exactly the default features, and the message is absent or
\* the preview advisory: the failure is not reported.
C10_DefaultBundleOnFeatureFailure ==
    (Done /\ NothingUsable)
    => /\ RecordPresent
       /\ Record.audio_features =
            [danceability |-> 50, energy |-> 50, speechiness |-> 10,
             acousticness |-> 30, instrumentalness |-> 20, liveness |-> 15,
             valence |-> 50, tempo |-> 120, loudness |-> -5, key |-> 0,
             mode |-> 1, time_signature |-> 4]
       /\ result.error # None <=> Record.preview_url = None
       /\ result.error # None
             => result.error =
                  Some(<<"Spotify preview not available. Alternative listening options provided below.">>)

\* the feature call raised for a candidate with a preview: a record with
\* the default features and no message
C10_Witness ==
    /\ Done /\ FeatureRaised /\ RecordPresent
    /\ Record.preview_url # None /\ result.error = None
    /\ Record.audio_features.speechiness = 10

\* C13: the search calls are issued in the order exact-field query,
\* title and artist, title alone; a query is issued only after every
\* earlier one was answered with an empty list, so a non-empty answer is the
\* last search call, at most three are made, and the record is built from
\* a candidate of that last answer.
C13_TiersInOrderShortCircuit ==
    /\ Len(SearchCalls) <= 3
    /\ \A k \in 1..Len(SearchCalls) :
          /\ k = 1 => SearchCalls[k].arg =
                         <<"track:\"">> \o track_name \o <<"\" artist:\"">>
                             \o artist_name \o <<"\"">>
          /\ k = 2 => SearchCalls[k].arg = track_name \o <<" ">> \o artist_name
          /\ k = 3 => SearchCalls[k].arg = track_name
          /\ k < Len(SearchCalls) => Answered(k) /\ ItemsOf(k) = <<>>
    /\ (Done /\ RecordPresent)
          => /\ Selecting
             /\ \E i \in 1..Len(ChosenFrom) : BuiltFrom(ChosenFrom[i])

\* the first tier is empty and the second answers with a list without any
\* preview: no third query is issued and the record comes from the second
C13_Witness ==
    /\ Done /\ Len(SearchCalls) = 2 /\ Selecting
    /\ \A i \in 1..Len(ChosenFrom) : ~HasPreview(ChosenFrom[i])
    /\ RecordPresent /\ BuiltFrom(ChosenFrom[1])

\* C14: when the first non-empty result list holds no candidate with a
\* preview, the record is built from its first element, matching or not,
\* and is returned with the preview-unavailable advisory.
C14_FirstElementWhenNoPreview ==
    (Done /\ Selecting /\ \A i \in 1..Len(ChosenFrom) : ~HasPreview(ChosenFrom[i]))
    => /\ BuiltFrom(ChosenFrom[1])
       /\ result.error =
            Some(<<"Spotify preview not available. Alternative listening options provided below.">>)

\* two candidates without preview; the first matches neither title nor
\* artist, the second matches both; the first is returned
C14_Witness ==
    /\ Done /\ Selecting /\ Len(ChosenFrom) = 2
    /\ track_name # <<>> /\ artist_name # <<>>
    /\ ~HasPreview(ChosenFrom[1]) /\ ~HasPreview(ChosenFrom[2])
    /\ ~NameMatches(ChosenFrom[1]) /\ NameMatches(ChosenFrom[2])
    /\ ChosenFrom[1].id # ChosenFrom[2].id
    /\ BuiltFrom(ChosenFrom[1]) /\ result.error # None

\* C15: the calls of a run are the session call, then search calls, then
\* the feature call; the feature call is made once, with the identifier of
\* the chosen candidate, in every run that chose one, and in no other run.
C15_CallOrderAndFeatureFetch ==
    /\ \A i \in 1..Len(trace) :
          /\ trace[i].op = "auth" <=> i = 1
          /\ trace[i].op = "audio_features" => i = Len(trace) /\ Done
          /\ trace[i].op = "search" => i > 1
    /\ Len(FeatureCalls) <= 1
    /\ Done =>
          /\ Selecting <=> Len(FeatureCalls) = 1
          /\ Selecting =>
                \E i \in 1..Len(ChosenFrom) :
                    /\ BuiltFrom(ChosenFrom[i])
                    /\ FeatureCalls[1].arg = ChosenFrom[i].id

\* a candidate without preview was chosen at the third tier and its
\* features were fetched
C15_Witness ==
    /\ Done /\ Len(trace) = 5 /\ Selecting
    /\ ~HasPreview(ChosenFrom[1]) /\ BuiltFrom(ChosenFrom[1])
    /\ trace[5].op = "audio_features" /\ trace[5].arg = ChosenFrom[1].id

(***************************************************************************)
(* get_track_preview as one function of its arguments and of the answers   *)
(* of the service: env.auth answers the session creation, env.search[k]    *)
(* the k-th query, env.features[id] the feature call for id.               *)
(***************************************************************************)
RECURSIVE SearchFrom(_, _, _, _)
\* the loop over search_queries from the k-th query on
SearchFrom(k, t, a, env) ==
    LET out == SearchIteration(env.search[k], k, t, a)
    IN  IF out.kind = "continue" THEN SearchFrom(k + 1, t, a, env) ELSE out

search_track_with_preview(t, a, env) == SearchFrom(1, t, a, env)

get_track_preview(t, a, env) ==
    LET client == initialize_spotify_client(env.auth) IN
    IF client.kind = "raise" THEN TopExcept(client.exc)
    ELSE IF ~Truthy(client.value) THEN ClientUnavailableResult
    ELSE LET found == search_track_with_preview(t, a, env) IN
         IF found.kind = "raise" THEN TopExcept(found.exc)
         ELSE IF ~Truthy(found.value) THEN NotFoundResult(t, a)
         ELSE LET features == get_audio_features(env.features[Get(found.value).id])
              IN  IF features.kind = "raise" THEN TopExcept(features.exc)
                  ELSE FinalResult(CompleteTrack(Get(found.value), features.value,
                                                 t, a))

(***************************************************************************)
(* Two calls of get_track_preview in flight                                *)
(*                                                                         *)
(* calls[p] holds the arguments, locals and result of call p.  The service *)
(* answers a request it has answered before in the same way: catalog       *)
(* records the answers given.  The two calls face one catalog              *)
(* (catalog.shared) or one catalog each.  Session creation is answered per *)
(* call.                                                                   *)
(***************************************************************************)
Procs == {1, 2}

TrackById(id) == CHOOSE track \in CatalogTracks : track.id = id

TrackIds == {track.id : track \in CatalogTracks}

PairInputs == {<<t, a>> : t \in {<<"a">>, <<"b">>}, a \in {<<"a">>}}

PairAuthResponses == {[kind |-> "ok"], [kind |-> "raise", exc |-> "ReadTimeout"]}

PairSearchResponses ==
    { [kind |-> "ok", items |-> <<>>],
      [kind |-> "ok", items |-> <<TrackById("t1"), TrackById("t3")>>],
      [kind |-> "ok", items |-> <<TrackById("t2")>>],
      [kind |-> "raise", exc |-> "ReadTimeout"] }

PairFeatureResponses ==
    { [kind |-> "none"],
      [kind |-> "list",
       items |-> <<Some([k \in FeatureFields |->
                            IF k \in Proportions THEN <<1, 4>>
                            ELSE IF k = "loudness" THEN -7 ELSE 2])>>],
      [kind |-> "raise", exc |-> "ReadTimeout"] }

Frame(t, a) ==
    [track_name |-> t, artist_name |-> a, pc |-> "initialize", sp |-> None,
     tier |-> 1, track_info |-> None, trace |-> <<>>, result |-> NoResult]

\* the catalog call p talks to
CatalogOf(p) == IF catalog.shared THEN 1 ELSE p

Known(c, req) == \E e \in catalog.answers[c] : e.req = req

AnswerTo(c, req) == (CHOOSE e \in catalog.answers[c] : e.req = req).resp

\* the answers the service may give to req: the one it gave before, or any
PossibleAnswers(c, req, fresh) == IF Known(c, req) THEN {AnswerTo(c, req)} ELSE fresh

Recorded(c, req, resp) ==
    [catalog EXCEPT !.answers[c] = @ \cup {[req |-> req, resp |-> resp]}]

\* search_queries of a call is a module-level iterator shared by all calls
LoopSlot_Global(p) == 1

\* search_queries is built inside search_track_with_preview: the position
\* of the loop over it belongs to the call
LoopSlot(p) == p

PairInit ==
    /\ calls \in [Procs -> {Frame(in[1], in[2]) : in \in PairInputs}]
    /\ catalog \in {[shared |-> b, answers |-> [c \in Procs |-> {}]] : b \in BOOLEAN}
    /\ track_name = <<>> /\ artist_name = <<>> /\ pc = "idle" /\ sp = None
    /\ tier = 1 /\ track_info = None /\ trace = <<>> /\ result = NoResult
    /\ session_state = <<>> /\ page = <<>>

Logged(p, op, arg, resp) == Append(calls[p].trace, [op |-> op, arg |-> arg, resp |-> resp])

PairInitialize(p) ==
    /\ calls[p].pc = "initialize"
    /\ \E resp \in PairAuthResponses :
        LET out == initialize_spotify_client(resp)
            log == Logged(p, "auth", <<>>, resp)
        IN  calls' =
              IF out.kind = "raise"
              THEN [calls EXCEPT ![p].trace = log, ![p].pc = "done",
                                 ![p].result = TopExcept(out.exc)]
              ELSE IF ~Truthy(out.value)
              THEN [calls EXCEPT ![p].trace = log, ![p].pc = "done",
                                 ![p].sp = out.value,
                                 ![p].result = ClientUnavailableResult]
              ELSE [calls EXCEPT ![p].trace = log, ![p].pc = "search",
                                 ![p].sp = out.value]
    /\ UNCHANGED <<call, catalog, session_state, page>>

\* the return of search_track_with_preview with value out, as seen by
\* get_track_preview
AfterSearch(p, out, log) ==
    IF out.kind = "raise"
    THEN [calls EXCEPT ![p].trace = log, ![p].pc = "done",
                       ![p].result = TopExcept(out.exc)]
    ELSE IF ~Truthy(out.value)
    THEN [calls EXCEPT ![p].trace = log, ![p].pc = "done",
                       ![p].track_info = out.value,
                       ![p].result = NotFoundResult(calls[p].track_name,
                                                    calls[p].artist_name)]
    ELSE [calls EXCEPT ![p].trace = log, ![p].pc = "features",
                       ![p].track_info = out.value]

\* one step of the loop over search_queries: the loop ends when the
\* queries are used up, else the next query is taken and sent
PairSearch(p) ==
    /\ calls[p].pc = "search"
    /\ LET t == calls[p].track_name
           a == calls[p].artist_name
           k == calls[LoopSlot(p)].tier
       IN  IF k > Len(search_queries(t, a))
           THEN /\ calls' = AfterSearch(p, Return(None), calls[p].trace)
                /\ UNCHANGED catalog
           ELSE LET query == search_queries(t, a)[k]
                    req == <<"search", query>>
                IN  \E resp \in PossibleAnswers(CatalogOf(p), req, PairSearchResponses) :
                       LET out == SearchIteration(resp, k, t, a)
                           log == Logged(p, "search", query, resp)
                           next == IF out.kind = "continue"
                                   THEN [calls EXCEPT ![p].trace = log]
                                   ELSE AfterSearch(p, out, log)
                       IN  /\ calls' = [next EXCEPT ![LoopSlot(p)].tier = k + 1]
                           /\ catalog' = Recorded(CatalogOf(p), req, resp)
    /\ UNCHANGED <<call, session_state, page>>

PairFeatures(p) ==
    /\ calls[p].pc = "features"
    /\ LET info == Get(calls[p].track_info)
           req == <<"audio_features", info.id>>
       IN  \E resp \in PossibleAnswers(CatalogOf(p), req, PairFeatureResponses) :
              LET out == get_audio_features(resp)
                  log == Logged(p, "audio_features", info.id, resp)
                  done == CompleteTrack(info, out.value, calls[p].track_name,
                                        calls[p].artist_name)
              IN  /\ calls' =
                        IF out.kind = "raise"
                        THEN [calls EXCEPT ![p].trace = log, ![p].pc = "done",
                                           ![p].result = TopExcept(out.exc)]
                        ELSE [calls EXCEPT ![p].trace = log, ![p].pc = "done",
                                           ![p].track_info = Some(done),
                                           ![p].result = FinalResult(done)]
                  /\ catalog' = Recorded(CatalogOf(p), req, resp)
    /\ UNCHANGED <<call, session_state, page>>

PairNext == \E p \in Procs : PairInitialize(p) \/ PairSearch(p) \/ PairFeatures(p)

PairSpec == PairInit /\ [][PairNext]_vars

(***************************************************************************)
(* What two finished calls show                                            *)
(***************************************************************************)
Finished(p) == calls[p].pc = "done"

Succeeded(p) == Finished(p) /\ calls[p].result.track_data # None

RecordOf(p) == Get(calls[p].result.track_data)

SameInput == /\ calls[1].track_name = calls[2].track_name
             /\ calls[1].artist_name = calls[2].artist_name

\* the answer of the catalog of call p to req, for a request it has answered
CatalogAnswer(p, req) ==
    IF Known(CatalogOf(p), req) THEN AnswerTo(CatalogOf(p), req)
    ELSE [kind |-> "raise", exc |-> "no answer on record"]

\* the result of call p had it run alone: with the answer its own session
\* creation got and the answers of its catalog
Alone(p) ==
    LET t == calls[p].track_name
        a == calls[p].artist_name
    IN  get_track_preview(t, a,
            [auth |-> calls[p].trace[1].resp,
             search |-> [k \in 1..3 |-> CatalogAnswer(p, <<"search", search_queries(t, a)[k]>>)],
             features |-> [id \in TrackIds |-> CatalogAnswer(p, <<"audio_features", id>>)]])

\* C11: two successful calls with the same title and artist return the same
\* three links, whatever their catalogs answered; the three links are
\* present and each contains title, "%20" and artist.
C11_LinksFromInputOnly ==
    \A p \in Procs : \A q \in Procs :
        (Succeeded(p) /\ Succeeded(q)
            /\ calls[p].track_name = calls[q].track_name
            /\ calls[p].artist_name = calls[q].artist_name)
        => /\ RecordOf(p).alternatives = RecordOf(q).alternatives
           /\ DOMAIN RecordOf(p).alternatives =
                {"youtube_search", "youtube_music", "soundcloud"}
           /\ \A link \in DOMAIN RecordOf(p).alternatives :
                 In(calls[p].track_name \o <<"%", "2", "0">> \o calls[p].artist_name,
                    RecordOf(p).alternatives[link])

\* same input, two catalogs, different tracks found and different feature
\* answers, and the same links
C11_Witness ==
    /\ ~catalog.shared /\ SameInput /\ Succeeded(1) /\ Succeeded(2)
    /\ RecordOf(1).id # RecordOf(2).id
    /\ RecordOf(1).name # RecordOf(2).name
    /\ RecordOf(1).audio_features # RecordOf(2).audio_features
    /\ RecordOf(1).alternatives = RecordOf(2).alternatives

\* C12: two calls with the same title and artist against one catalog, with
\* the same answer to their session creation, return the same record and
\* the same text.
C12_SameInputSameOutcome ==
    (Finished(1) /\ Finished(2) /\ SameInput /\ catalog.shared
        /\ calls[1].trace[1].resp = calls[2].trace[1].resp)
    => calls[1].result = calls[2].result

\* both calls found a track at the second tier and returned the same record
C12_Witness ==
    /\ Succeeded(1) /\ Succeeded(2) /\ SameInput /\ catalog.shared
    /\ Len(calls[1].trace) = 4 /\ Len(calls[2].trace) = 4
    /\ calls[1].result = calls[2].result

\* C16: a step of one call changes nothing of the other call, each call
\* opens with its own session creation, and a finished call has the result
\* it has when run alone against its catalog.
C16_CallsIsolated ==
    /\ [](\A p \in Procs :
             /\ calls[p].trace # <<>> => calls[p].trace[1].op = "auth"
             /\ calls[p].pc \in {"search", "features"} => calls[p].sp # None
             /\ Finished(p) => calls[p].result = Alone(p))
    /\ [][\A p \in Procs : \A q \in Procs \ {p} :
             calls'[p] # calls[p] => calls'[q] = calls[q]]_vars

\* the two calls ran interleaved with different inputs against one
\* catalog and both returned a record
C16_Witness ==
    /\ catalog.shared /\ ~SameInput /\ Succeeded(1) /\ Succeeded(2)
    /\ calls[1].result = Alone(1) /\ calls[2].result = Alone(2)
    /\ RecordOf(1).id # RecordOf(2).id

(***************************************************************************)
(* The dashboard (app.py)                                                  *)
(*                                                                         *)
(* Every interaction runs the script once.  session_state outlives the     *)
(* runs: the data set, selected_track and the two select boxes.  page is   *)
(* what the last run rendered: the message of the Analyze Track handler    *)
(* and whether the track panels were drawn, with which track.  page also   *)
(* remembers the result of the latest analysis and the selected_track it   *)
(* found.                                                                  *)
(***************************************************************************)
\* rows (track_name, artist) of the data set
Dataset == {<<<<"a">>, <<"a">>>>, <<<<"b">>, <<"a">>>>, <<<<"A">>, <<"b">>>>}

\* the answers of the service during one analysis
AppEnvs ==
    {[auth |-> au, search |-> se, features |-> [id \in TrackIds |-> fe]] :
        au \in PairAuthResponses,
        se \in [1..3 -> PairSearchResponses],
        fe \in PairFeatureResponses}

\* the data set of the session: read from songs.csv when none is loaded
LoadDataset(ss, readable) ==
    IF ss.df = None /\ readable THEN [ss EXCEPT !.df = Some("songs.csv")] ELSE ss

\* a handler that stores a record and leaves selected_track alone otherwise
AnalyzeHandler_KeepsOld(ss, res) ==
    IF Truthy(res.track_data) THEN [ss EXCEPT !.selected_track = res.track_data]
    ELSE ss

\* the two branches of the Analyze Track handler on session_state
AnalyzeHandler(ss, res) ==
    IF Truthy(res.track_data) THEN [ss EXCEPT !.selected_track = res.track_data]
    ELSE [ss EXCEPT !.selected_track = None]

\* the message the handler shows
HandlerMessage(res) ==
    IF Truthy(res.track_data)
    THEN IF Truthy(res.error) THEN Some(<<"warning">> \o Get(res.error))
         ELSE Some(<<"success", "Track data loaded successfully!">>)
    ELSE IF Truthy(res.error) THEN Some(<<"error">> \o Get(res.error))
         ELSE Some(<<"error", "Unable to fetch track data">>)

\* the display section: the panels are drawn from selected_track when set
Display(ss) ==
    [panels |-> ss.df # None /\ Truthy(ss.selected_track),
     shown |-> IF ss.df # None THEN ss.selected_track ELSE None]

Rendered(ss, message, analysis, previous) ==
    [message |-> message, panels |-> Display(ss).panels, shown |-> Display(ss).shown,
     analysis |-> analysis, previous |-> previous]

AppInit ==
    /\ session_state = [df |-> None, selected_track |-> None, select |-> None]
    /\ page = [message |-> None, panels |-> FALSE, shown |-> None,
               analysis |-> None, previous |-> None]
    /\ track_name = <<>> /\ artist_name = <<>> /\ pc = "idle" /\ sp = None
    /\ tier = 1 /\ track_info = None /\ trace = <<>> /\ result = NoResult
    /\ calls = <<>> /\ catalog = <<>>

\* a run of the script without the button: the page is loaded, or the
\* selection changed
AppRun ==
    /\ \E readable \in BOOLEAN : \E row \in Dataset :
          LET loaded == LoadDataset(session_state, readable)
              ss == IF loaded.df = None THEN loaded
                    ELSE [loaded EXCEPT !.select = Some(row)]
          IN  /\ session_state' = ss
              /\ page' = Rendered(ss, None, page.analysis, page.previous)
    /\ UNCHANGED <<call, calls, catalog>>

\* a run of the script with Analyze Track pressed
AppAnalyze ==
    /\ session_state.df # None /\ session_state.select # None
    /\ \E env \in AppEnvs :
          LET row == Get(session_state.select)
              res == get_track_preview(row[1], row[2], env)
              ss == AnalyzeHandler(session_state, res)
          IN  /\ session_state' = ss
              /\ page' = Rendered(ss, HandlerMessage(res), Some(res),
                                  Some(session_state.selected_track))
    /\ UNCHANGED <<call, calls, catalog>>

AppNext == AppRun \/ AppAnalyze

AppSpec == AppInit /\ [][AppNext]_vars

\* C17: once an analysis has run, selected_track is the record the latest
\* analysis returned, or None when it returned none; the panels are drawn
\* only when selected_track is a record, and show that record.
C17_SelectedTrackFollowsLatestAnalysis ==
    /\ page.analysis # None =>
          /\ Get(page.analysis).track_data # None
                => session_state.selected_track = Get(page.analysis).track_data
          /\ Get(page.analysis).track_data = None
                => session_state.selected_track = None
    /\ page.analysis = None => session_state.selected_track = None
    /\ page.panels => /\ session_state.selected_track # None
                      /\ page.shown = session_state.selected_track

\* an analysis failed while the record of an earlier analysis was selected:
\* selected_track is None and no panel is drawn
C17_Witness ==
    /\ page.analysis # None /\ Get(page.analysis).track_data = None
    /\ page.previous # None /\ Get(page.previous) # None
    /\ session_state.selected_track = None /\ ~page.panels
    /\ page.message # None /\ Get(page.message)[1] = "error"

====
